---- MODULE Spec2Model ----
(***************************************************************************)
(* Django_Blog: the read-through / write-invalidate cache over the post   *)
(* views (blog/views.py, blog/signals.py) and the Celery tasks the        *)
(* request handlers hand to the queue (blog/tasks.py, users/tasks.py,     *)
(* payments/tasks.py).                                                    *)
(*                                                                         *)
(* Every request handler is one action.  The order of its effects (cache  *)
(* calls, database writes, .delay() calls) is kept in last.events, in the *)
(* order of the statements of the handler.  A cache call or a database    *)
(* write may raise: the handler's inputs say which call does.             *)
(***************************************************************************)
EXTENDS Integers, Sequences, FiniteSets, TLC

(* ------------------------------ bounds -------------------------------- *)

\* Post primary keys handed out by the database: 1..MaxPosts.
MaxPosts == 1

\* Number of edits of one post the model follows.
MaxVer == 1

\* Largest post id the key functions are compared on.
MaxKeyPk == 12

\* Tasks the worker is followed on.
MaxTasks == 2

\* Users in the table when the reminder sweep runs.
MaxSweepUsers == 3

\* Donation rows the checkout creates.
MaxDonations == 2

\* Usernames of registered users and of /user/<username>/posts/ requests.
Usernames == {"al", "bo"}

\* auth_user primary keys.
UserIds == 1..Cardinality(Usernames)

\* users/mixins.py:11, 15: the roles a Profile row holds.
Roles == {"Author", "Reader"}

PostIds == 1..MaxPosts

\* The image of a Profile nobody uploaded a file for, and the files a profile
\* form may upload.
DefaultImage == "default.jpg"

Uploads == {"me.jpg"}

VARIABLES
    users,      \* auth_user with users_profile: id -> [username, role, active,
                \* image], registered ids only; role is "none" for a user
                \* without a Profile row, active is is_active, image is the
                \* name of the Profile's image file
    posts,      \* blog_post: pk -> [author, ver], existing rows only
    nextPk,     \* the table's auto-increment
    cache,      \* the cache store: key -> value, present keys only
    last,       \* the most recent request or event, with its effects in order
    tasks,      \* the tasks handed to the worker, in order of arrival
    donations,  \* payments_donation: id -> [status, email], existing rows only
    reads,      \* the list requests in progress: reader -> [pc, val, status, result, wrote]
    writer,     \* the post mutation in progress: [pc, op, pk]
    idA, idB,   \* two resource identities, and
    keyA, keyB  \* the cache keys computed for them

vars == <<users, posts, nextPk, cache, last, tasks, donations, reads, writer,
         idA, idB, keyA, keyB>>

(* ------------------------- Cache Key Policy --------------------------- *)

\* blog/views.py:69, blog/signals.py:37
GlobalListKey == "post_list_view"

\* Variant of UserListKey with the prefix of the other two scopes.
UserListKeyMerged(username) == "post_" \o username

\* blog/views.py:140, blog/signals.py:38: f"user_posts_{username}"
UserListKey(username) == "user_posts_" \o username

\* blog/signals.py:39: f"post_detail_{pk}"
DetailKey(pk) == "post_detail_" \o ToString(pk)

\* blog/signals.py:40: f"post_detail.views.decorators.cache.cache_page..{pk}."
SignalPageKey(pk) ==
    "post_detail.views.decorators.cache.cache_page.." \o ToString(pk) \o "."

\* blog/urls.py:21: the URL of a post's detail page
DetailUrl(pk) == "/post/" \o ToString(pk) \o "/detail/"

\* The digest cache_page takes of the URL and of the varied headers: an
\* opaque token, different for different inputs.
Md5(s) == "md5(" \o s \o ")"

\* blog/views.py:163: cache_page(60 * 60, key_prefix='post_detail') keeps the
\* response under views.decorators.cache.cache_page.<prefix>.<method>.<url
\* digest>.<header digest> and the varied header list under
\* views.decorators.cache.cache_header.<prefix>.<url digest>.
PageKey(pk) ==
    "views.decorators.cache.cache_page.post_detail.GET."
        \o Md5(DetailUrl(pk)) \o "." \o Md5("")

HeaderKey(pk) ==
    "views.decorators.cache.cache_header.post_detail." \o Md5(DetailUrl(pk))

\* A resource identity is <<scope>> or <<scope, parameter>>.
KeyNames ==
    Usernames \cup {"1", "2", "detail_1", "list_view", "posts_al", "user_posts_al"}

Identities ==
    {<<"global-list">>}
        \cup {<<"user-list", n>> : n \in KeyNames}
        \cup {<<"detail", pk>> : pk \in 1..MaxKeyPk}

keyFor(id) ==
    CASE id[1] = "global-list" -> GlobalListKey
      [] id[1] = "user-list" -> UserListKey(id[2])
      [] id[1] = "detail" -> DetailKey(id[2])

(* ---------------------------- the database ---------------------------- *)

Has(f, k) == k \in DOMAIN f

Put(f, k, v) == [x \in DOMAIN f \cup {k} |-> IF x = k THEN v ELSE f[x]]

Drop(f, ks) == [x \in DOMAIN f \ ks |-> f[x]]

Empty == [x \in {} |-> x]

\* A post as a list or page shows it.
Snap(pk) == <<pk, posts[pk].ver>>

RECURSIVE Newest(_)
\* The posts of the set pks, newest first: date_posted is set at creation
\* and no form edits it, so the order is that of the primary keys.
Newest(pks) ==
    IF pks = {} THEN << >>
    ELSE LET m == CHOOSE p \in pks : \A q \in pks : q <= p
         IN <<Snap(m)>> \o Newest(pks \ {m})

\* blog/views.py:77: list(Post.objects.select_related('author').order_by('-date_posted'))
AllPosts == Newest(DOMAIN posts)

\* blog/views.py:154: list(Post.objects.filter(author=user).order_by('-date_posted'))
PostsOf(uid) == Newest({p \in DOMAIN posts : posts[p].author = uid})

\* blog/views.py:151: get_object_or_404(User, username=...)
UsersNamed(username) == {u \in DOMAIN users : users[u].username = username}

(* ------------------------------ requests ------------------------------ *)

TaskNames ==
    {"post_notifying_email", "post_update_notifying_email", "notify_post_deletion",
     "send_welcome_email", "profile_update_email", "process_profile_image",
     "send_donation_appreciation_email"}

\* <task>.delay(...)
Delay(name) == "delay:" \o name

DelayEvents == {Delay(n) : n \in TaskNames}

\* What a request did.  seq tells a request from the same request made just
\* before it, also when both did the same.
Req(op, arg, status, result, events, asked) ==
    [op |-> op, arg |-> arg, status |-> status, result |-> result,
     events |-> events, asked |-> asked,
     seq |-> IF last.op = op /\ last.arg = arg THEN 1 - last.seq ELSE 0]

NoRequest ==
    [op |-> "start", arg |-> << >>, status |-> 0, result |-> << >>,
     events |-> << >>, asked |-> << >>, seq |-> 0]

Times(n, e) == [i \in 1..n |-> e]

(* ---------------------- Read-Through Cache Layer ---------------------- *)

\* Variant of PostListView.get_queryset that tests "if posts:" where the view
\* tests "if posts is not None:": a cached empty list counts as absent.
PostListView_get_queryset_falsy(getOk, setOk) ==
    LET key == GlobalListKey
        R(status, result, events) ==
            Req("PostListView", <<key>>, status, result, events, << >>)
    IN
    /\ UNCHANGED <<users, posts, nextPk, tasks, donations, reads, writer, idA, idB, keyA, keyB>>
    /\ IF Has(cache, key) /\ cache[key] # << >>
       THEN /\ last' = R(200, cache[key], <<"cache.get">>)
            /\ UNCHANGED cache
       ELSE /\ last' = R(200, AllPosts, <<"cache.get", "db.posts", "cache.set">>)
            /\ cache' = Put(cache, key, AllPosts)

\* PostListView.get_queryset.  getOk, setOk: whether cache.get and cache.set
\* return (TRUE) or raise.
PostListView_get_queryset(getOk, setOk) ==
    LET key == GlobalListKey
        R(status, result, events) ==
            Req("PostListView", <<key>>, status, result, events, << >>)
    IN
    /\ UNCHANGED <<users, posts, nextPk, tasks, donations, reads, writer, idA, idB, keyA, keyB>>
    /\ IF ~getOk
       THEN /\ last' = R(500, << >>, <<"cache.get", "raise">>)
            /\ UNCHANGED cache
       ELSE IF Has(cache, key)
       THEN /\ last' = R(200, cache[key], <<"cache.get">>)
            /\ UNCHANGED cache
       ELSE IF ~setOk
       THEN /\ last' = R(500, << >>, <<"cache.get", "db.posts", "cache.set", "raise">>)
            /\ UNCHANGED cache
       ELSE /\ last' = R(200, AllPosts, <<"cache.get", "db.posts", "cache.set">>)
            /\ cache' = Put(cache, key, AllPosts)

\* Variant of SameUserPostListView.get_queryset that stores an empty list for
\* a username no user has, before answering 404.
SameUserPostListView_get_queryset_negative(username, getOk, setOk) ==
    LET key == UserListKey(username)
        R(status, result, events) ==
            Req("SameUserPostListView", <<key>>, status, result, events, << >>)
    IN
    /\ UNCHANGED <<users, posts, nextPk, tasks, donations, reads, writer, idA, idB, keyA, keyB>>
    /\ IF Has(cache, key)
       THEN /\ last' = R(200, cache[key], <<"cache.get">>)
            /\ UNCHANGED cache
       ELSE IF UsersNamed(username) = {}
       THEN /\ last' = R(404, << >>, <<"cache.get", "db.user", "cache.set", "raise">>)
            /\ cache' = Put(cache, key, << >>)
       ELSE LET user == CHOOSE u \in UsersNamed(username) : TRUE
            IN /\ last' = R(200, PostsOf(user),
                            <<"cache.get", "db.user", "db.posts", "cache.set">>)
               /\ cache' = Put(cache, key, PostsOf(user))

\* Variant of SameUserPostListView.get_queryset that stores a list only when
\* it has posts in it.
SameUserPostListView_get_queryset_skip_empty(username, getOk, setOk) ==
    LET key == UserListKey(username)
        R(status, result, events) ==
            Req("SameUserPostListView", <<key>>, status, result, events, << >>)
    IN
    /\ UNCHANGED <<users, posts, nextPk, tasks, donations, reads, writer, idA, idB, keyA, keyB>>
    /\ IF Has(cache, key)
       THEN /\ last' = R(200, cache[key], <<"cache.get">>)
            /\ UNCHANGED cache
       ELSE IF UsersNamed(username) = {}
       THEN /\ last' = R(404, << >>, <<"cache.get", "db.user", "raise">>)
            /\ UNCHANGED cache
       ELSE LET user == CHOOSE u \in UsersNamed(username) : TRUE
            IN IF PostsOf(user) = << >>
               THEN /\ last' = R(200, << >>, <<"cache.get", "db.user", "db.posts">>)
                    /\ UNCHANGED cache
               ELSE /\ last' = R(200, PostsOf(user),
                                 <<"cache.get", "db.user", "db.posts", "cache.set">>)
                    /\ cache' = Put(cache, key, PostsOf(user))

\* SameUserPostListView.get_queryset for /user/<username>/posts/.
SameUserPostListView_get_queryset(username, getOk, setOk) ==
    LET key == UserListKey(username)
        R(status, result, events) ==
            Req("SameUserPostListView", <<key>>, status, result, events, << >>)
    IN
    /\ UNCHANGED <<users, posts, nextPk, tasks, donations, reads, writer, idA, idB, keyA, keyB>>
    /\ IF ~getOk
       THEN /\ last' = R(500, << >>, <<"cache.get", "raise">>)
            /\ UNCHANGED cache
       ELSE IF Has(cache, key)
       THEN /\ last' = R(200, cache[key], <<"cache.get">>)
            /\ UNCHANGED cache
       ELSE IF UsersNamed(username) = {}
       THEN /\ last' = R(404, << >>, <<"cache.get", "db.user", "raise">>)
            /\ UNCHANGED cache
       ELSE LET user == CHOOSE u \in UsersNamed(username) : TRUE
            IN IF ~setOk
               THEN /\ last' = R(500, << >>,
                                 <<"cache.get", "db.user", "db.posts", "cache.set", "raise">>)
                    /\ UNCHANGED cache
               ELSE /\ last' = R(200, PostsOf(user),
                                 <<"cache.get", "db.user", "db.posts", "cache.set">>)
                    /\ cache' = Put(cache, key, PostsOf(user))

\* PostDetailView under cache_page: the header list is looked up first, then
\* the page; a 200 response is stored under both keys, a 404 is not stored.
PostDetailView_dispatch(pk, getOk, setOk) ==
    LET R(status, result, events) ==
            Req("PostDetailView", <<PageKey(pk)>>, status, result, events, << >>)
    IN
    /\ UNCHANGED <<users, posts, nextPk, tasks, donations, reads, writer, idA, idB, keyA, keyB>>
    /\ IF ~getOk
       THEN /\ last' = R(500, << >>, <<"cache.get", "raise">>)
            /\ UNCHANGED cache
       ELSE IF Has(cache, HeaderKey(pk)) /\ Has(cache, PageKey(pk))
       THEN /\ last' = R(200, cache[PageKey(pk)], <<"cache.get", "cache.get">>)
            /\ UNCHANGED cache
       ELSE IF ~Has(posts, pk)
       THEN /\ last' = R(404, << >>, <<"cache.get", "db.post", "raise">>)
            /\ UNCHANGED cache
       ELSE IF ~setOk
       THEN /\ last' = R(500, << >>, <<"cache.get", "db.post", "cache.set", "raise">>)
            /\ UNCHANGED cache
       ELSE /\ last' = R(200, <<Snap(pk)>>,
                         <<"cache.get", "db.post", "cache.set", "cache.set">>)
            /\ cache' = Put(Put(cache, HeaderKey(pk), << >>), PageKey(pk), <<Snap(pk)>>)

\* The store drops an entry whose TTL has run out (3600 s, or 1800 s for a
\* user list); a page goes with its header list, stored at the same time.
Expire(key) ==
    /\ Has(cache, key)
    /\ \A pk \in PostIds : key # HeaderKey(pk)
    /\ cache' = Drop(cache, {key} \cup {HeaderKey(pk) : pk \in {p \in PostIds : key = PageKey(p)}})
    /\ last' = Req("expire", <<key>>, 0, << >>, << >>, << >>)
    /\ UNCHANGED <<users, posts, nextPk, tasks, donations, reads, writer, idA, idB, keyA, keyB>>

(* --------------------- Write-Invalidation Trigger --------------------- *)

\* f"post_summary_{post.id}"
SummaryKey(pk) == "post_summary_" \o ToString(pk)

\* Variant of the key list that also names the post's cached summary.
InvalidationKeysWithSummary(username, pk) ==
    <<GlobalListKey, UserListKey(username), DetailKey(pk), SignalPageKey(pk),
      SummaryKey(pk)>>

\* Variant of the key list without the author's list.
InvalidationKeysNoAuthor(username, pk) ==
    <<GlobalListKey, DetailKey(pk), SignalPageKey(pk)>>

\* blog/signals.py:36-42: the keys invalidate_post_cache deletes, in order.
InvalidationKeys(username, pk) ==
    <<GlobalListKey, UserListKey(username), DetailKey(pk), SignalPageKey(pk)>>

\* What a cache.delete call may do: 0 for every call returning, i for the
\* i-th call raising.
FailChoices == 0..Len(InvalidationKeys("", 0))

\* Variant of invalidate_post_cache that goes on after a cache.delete that
\* raised: every other key is deleted before the exception leaves.
invalidate_post_cache_all(c, username, pk, failAt) ==
    LET keys == InvalidationKeys(username, pk)
        raised == failAt # 0 /\ failAt <= Len(keys)
    IN [cache |-> Drop(c, {keys[i] : i \in 1..Len(keys) \ {failAt}}),
        asked |-> keys,
        events |-> Times(Len(keys), "cache.delete")
                     \o (IF raised THEN <<"raise">> ELSE <<"log.info">>),
        raised |-> raised]

\* invalidate_post_cache(post) on the store c.  The comprehension calls
\* cache.delete key by key and stops at the call that raises.
invalidate_post_cache(c, username, pk, failAt) ==
    LET keys == InvalidationKeys(username, pk)
        calls == IF failAt = 0 \/ failAt > Len(keys) THEN Len(keys) ELSE failAt
        done == IF failAt = 0 \/ failAt > Len(keys) THEN Len(keys) ELSE failAt - 1
        raised == failAt # 0 /\ failAt <= Len(keys)
    IN [cache |-> Drop(c, {keys[i] : i \in 1..done}),
        asked |-> SubSeq(keys, 1, calls),
        events |-> Times(calls, "cache.delete")
                     \o (IF raised THEN <<"raise">> ELSE <<"log.info">>),
        raised |-> raised]

\* Variant of post_saved without the try/except.
post_saved_uncaught(c, username, pk, failAt) ==
    invalidate_post_cache(c, username, pk, failAt)

\* post_saved(sender, instance, created): the receiver of post_save.  raised:
\* whether the receiver lets an exception out to Model.save.
post_saved(c, username, pk, failAt) ==
    LET r == invalidate_post_cache(c, username, pk, failAt)
    IN [cache |-> r.cache, asked |-> r.asked,
        events |-> r.events \o (IF r.raised THEN <<"log.exception">> ELSE << >>),
        raised |-> FALSE]

\* post_deleted(sender, instance): the receiver of post_delete.
post_deleted(c, username, pk, failAt) ==
    LET r == invalidate_post_cache(c, username, pk, failAt)
    IN [cache |-> r.cache, asked |-> r.asked,
        events |-> r.events \o (IF r.raised THEN <<"log.exception">> ELSE << >>),
        raised |-> FALSE]

(* --------------------------- post mutations --------------------------- *)

\* request.user of a request without a session: AnonymousUser.
Anonymous == 0

\* Variant of the role test that only asks for a logged-in user.
AuthorRequiredAnyRole(uid) == Has(users, uid)

\* RoleRequiredMixin.test_func with required_role = 'Author'.
AuthorRequired(uid) == Has(users, uid) /\ users[uid].role = "Author"

\* The response to a logged-in user whom test_func does not let through: 403
\* (handle_no_permission), or 500 when request.user.profile raises because
\* the user has no Profile row.
Refused(uid) == IF users[uid].role = "none" THEN 500 ELSE 403

\* PostCreateView: dispatch (LoginRequiredMixin, then test_func), then
\* form_valid.  dbOk: whether the
\* INSERT returns or raises.
PostCreateView_form_valid(uid, dbOk, failAt) ==
    LET pk == nextPk
        R(status, events, asked) ==
            Req("PostCreateView", <<uid, pk>>, status, << >>, events, asked)
    IN
    /\ uid = Anonymous \/ Has(users, uid)
    /\ nextPk <= MaxPosts
    /\ UNCHANGED <<users, tasks, donations, reads, writer, idA, idB, keyA, keyB>>
    /\ IF uid = Anonymous
       THEN /\ last' = R(302, <<"redirect.login">>, << >>)
            /\ UNCHANGED <<posts, nextPk, cache>>
       ELSE IF ~AuthorRequired(uid)
       THEN /\ last' = R(Refused(uid), << >>, << >>)
            /\ UNCHANGED <<posts, nextPk, cache>>
       ELSE IF ~dbOk
       THEN /\ last' = R(500, <<Delay("post_notifying_email"), "db.error", "raise">>, << >>)
            /\ UNCHANGED <<posts, nextPk, cache>>
       ELSE LET inv == post_saved(cache, users[uid].username, pk, failAt)
            IN /\ posts' = Put(posts, pk, [author |-> uid, ver |-> 0])
               /\ nextPk' = nextPk + 1
               /\ cache' = inv.cache
               /\ last' = R(IF inv.raised THEN 500 ELSE 302,
                            <<Delay("post_notifying_email"), "db.commit">> \o inv.events,
                            inv.asked)

\* PostUpdateView: dispatch (LoginRequiredMixin, then test_func: get_object,
\* role and ownership), then form_valid.
PostUpdateView_form_valid(uid, pk, dbOk, failAt) ==
    LET R(status, events, asked) ==
            Req("PostUpdateView", <<uid, pk>>, status, << >>, events, asked)
    IN
    /\ uid = Anonymous \/ Has(users, uid)
    /\ UNCHANGED <<users, nextPk, tasks, donations, reads, writer, idA, idB, keyA, keyB>>
    /\ IF uid = Anonymous
       THEN /\ last' = R(302, <<"redirect.login">>, << >>)
            /\ UNCHANGED <<posts, cache>>
       ELSE IF ~Has(posts, pk)
       THEN /\ last' = R(404, << >>, << >>)
            /\ UNCHANGED <<posts, cache>>
       ELSE IF ~(AuthorRequired(uid) /\ uid = posts[pk].author)
       THEN /\ last' = R(Refused(uid), << >>, << >>)
            /\ UNCHANGED <<posts, cache>>
       ELSE /\ posts[pk].ver < MaxVer
            /\ IF ~dbOk
               THEN /\ last' = R(500, <<"db.error", "raise">>, << >>)
                    /\ UNCHANGED <<posts, cache>>
               ELSE LET inv == post_saved(cache, users[uid].username, pk, failAt)
                    IN /\ posts' = Put(posts, pk, [author |-> uid, ver |-> posts[pk].ver + 1])
                       /\ cache' = inv.cache
                       /\ last' = IF inv.raised
                                  THEN R(500, <<"db.commit">> \o inv.events, inv.asked)
                                  ELSE R(302, <<"db.commit">> \o inv.events
                                                \o <<Delay("post_update_notifying_email")>>,
                                         inv.asked)

\* PostDeleteView: dispatch (test_func: role and ownership), then delete.
\* Model.delete removes the row and sends post_delete inside one
\* transaction.atomic block: the receiver runs before the commit, and an
\* exception it lets out rolls the removal back.
PostDeleteView_delete(uid, pk, dbOk, failAt) ==
    LET R(status, events, asked) ==
            Req("PostDeleteView", <<uid, pk>>, status, << >>, events, asked)
    IN
    /\ uid = Anonymous \/ Has(users, uid)
    /\ UNCHANGED <<users, nextPk, tasks, donations, reads, writer, idA, idB, keyA, keyB>>
    /\ IF uid = Anonymous
       THEN /\ last' = R(302, <<"redirect.login">>, << >>)
            /\ UNCHANGED <<posts, cache>>
       ELSE IF ~Has(posts, pk)
       THEN /\ last' = R(404, << >>, << >>)
            /\ UNCHANGED <<posts, cache>>
       ELSE IF ~(AuthorRequired(uid) /\ uid = posts[pk].author)
       THEN /\ last' = R(Refused(uid), << >>, << >>)
            /\ UNCHANGED <<posts, cache>>
       ELSE IF ~dbOk
       THEN /\ last' = R(500, <<Delay("notify_post_deletion"), "db.error", "raise">>, << >>)
            /\ UNCHANGED <<posts, cache>>
       ELSE LET inv == post_deleted(cache, users[posts[pk].author].username, pk, failAt)
            IN /\ cache' = inv.cache
               /\ IF inv.raised
                  THEN /\ UNCHANGED posts
                       /\ last' = R(500, <<Delay("notify_post_deletion"), "db.delete">>
                                           \o inv.events \o <<"db.rollback">>,
                                    inv.asked)
                  ELSE /\ posts' = Drop(posts, {pk})
                       /\ last' = R(302, <<Delay("notify_post_deletion"), "db.delete">>
                                           \o inv.events \o <<"db.commit">>,
                                    inv.asked)

(* -------------------------------- users ------------------------------- *)

\* Variant of create_profile without the test of created.
create_profile_always(created, profileOk) ==
    IF ~profileOk
    THEN [profile |-> FALSE, events |-> <<"db.error", "log.error">>]
    ELSE [profile |-> TRUE, events |-> <<"db.commit", Delay("send_welcome_email")>>]

\* create_profile(sender, instance, created): the first receiver of User's
\* post_save.  profileOk: whether Profile.objects.create returns.  profile:
\* whether a Profile row was created.
create_profile(created, profileOk) ==
    IF ~created
    THEN [profile |-> FALSE, events |-> << >>]
    ELSE IF ~profileOk
    THEN [profile |-> FALSE, events |-> <<"db.error", "log.error">>]
    ELSE [profile |-> TRUE, events |-> <<"db.commit", Delay("send_welcome_email")>>]

\* register (POST) with the signal receivers create_profile and save_profile.
\* role: what the new Profile row holds.  userOk, profileOk: whether the
\* INSERT of the User and of the Profile return or raise.
register(username, role, userOk, profileOk) ==
    LET uid == Cardinality(DOMAIN users) + 1
        R(status, events) == Req("register", <<username>>, status, << >>, events, << >>)
        made == create_profile(TRUE, profileOk)
    IN
    /\ uid \in UserIds
    /\ UNCHANGED <<posts, nextPk, cache, tasks, donations, reads, writer, idA, idB, keyA, keyB>>
    /\ IF UsersNamed(username) # {}
       THEN /\ last' = R(200, <<"form.invalid">>)
            /\ UNCHANGED users
       ELSE IF ~userOk
       THEN /\ last' = R(200, <<"db.error", "log.error">>)
            /\ UNCHANGED users
       ELSE /\ last' = R(302, <<"db.commit">> \o made.events)
            /\ users' = Put(users, uid,
                            [username |-> username,
                             role |-> IF made.profile THEN role ELSE "none",
                             active |-> TRUE, image |-> DefaultImage])

\* Variant of the receivers in which a saved User drops the post lists cached
\* for it.
user_saved_invalidating(c, username) == Drop(c, {GlobalListKey, UserListKey(username)})

\* What saving a User does to the cache store.  The receivers of blog/signals
\* are bound to sender=Post and those of users/signals make no cache call: the
\* store c is left as it is.  username: the name before the save.
user_saved(c, username) == c

\* save_profile(sender, instance): the second receiver of User's post_save.
\* profileOk: whether instance.profile.save() returns; its exception is logged
\* and kept from the caller.
save_profile(hasProfile, profileOk) ==
    IF ~hasProfile THEN << >>
    ELSE IF profileOk THEN <<"db.update">>
    ELSE <<"db.error", "log.warning">>

\* Variant of profile without transaction.atomic: the User row written by
\* user_form.save() stays when profile_form.save() raises.
profile_without_atomic(uid, username, upload, userOk, profileOk) ==
    LET R(status, events) ==
            Req("profile", <<uid, username, upload>>, status, << >>, events, << >>)
        created == create_profile(FALSE, profileOk)
    IN
    /\ uid = Anonymous \/ Has(users, uid)
    /\ UNCHANGED <<posts, nextPk, tasks, donations, reads, writer, idA, idB, keyA, keyB>>
    /\ IF uid = Anonymous
       THEN /\ last' = R(302, <<"redirect.login">>)
            /\ UNCHANGED users
       ELSE IF users[uid].role = "none"
       THEN /\ last' = R(500, <<"raise">>)
            /\ UNCHANGED users
       ELSE IF UsersNamed(username) \ {uid} # {}
       THEN /\ last' = R(200, <<"log.warning">>)
            /\ UNCHANGED users
       ELSE IF ~userOk
       THEN /\ last' = R(200, <<"db.error", "db.rollback", "log.error">>)
            /\ UNCHANGED users
       ELSE IF ~profileOk
       THEN /\ last' = R(200, <<"db.update">> \o created.events
                                \o save_profile(TRUE, FALSE)
                                \o <<"db.error", "db.rollback", "log.error">>)
            /\ users' = [users EXCEPT ![uid].username = username]
       ELSE /\ last' = R(302, <<"db.update">> \o created.events
                                \o save_profile(TRUE, TRUE)
                                \o <<"db.update", "log.info", "db.commit">>
                                \o (IF upload # ""
                                    THEN <<Delay("process_profile_image")>> ELSE << >>)
                                \o <<Delay("profile_update_email")>>)
            /\ users' = [users EXCEPT ![uid].username = username,
                                      ![uid].image = IF upload # "" THEN upload ELSE @]
    /\ cache' = IF \E i \in DOMAIN last'.events : last'.events[i] = "db.update"
                THEN user_saved(cache, users[uid].username) ELSE cache

\* profile (POST) by the user uid: username is the posted username, upload the
\* name of the posted image file or "" for none.  userOk, profileOk: whether
\* the UPDATE of the User row and of the Profile row return or raise.
profile(uid, username, upload, userOk, profileOk) ==
    LET R(status, events) ==
            Req("profile", <<uid, username, upload>>, status, << >>, events, << >>)
        created == create_profile(FALSE, profileOk)
    IN
    /\ uid = Anonymous \/ Has(users, uid)
    /\ UNCHANGED <<posts, nextPk, tasks, donations, reads, writer, idA, idB, keyA, keyB>>
    /\ IF uid = Anonymous
       THEN /\ last' = R(302, <<"redirect.login">>)
            /\ UNCHANGED users
       ELSE IF users[uid].role = "none"
       THEN /\ last' = R(500, <<"raise">>)
            /\ UNCHANGED users
       ELSE IF UsersNamed(username) \ {uid} # {}
       THEN /\ last' = R(200, <<"log.warning">>)
            /\ UNCHANGED users
       ELSE IF ~userOk
       THEN /\ last' = R(200, <<"db.error", "db.rollback", "log.error">>)
            /\ UNCHANGED users
       ELSE IF ~profileOk
       THEN /\ last' = R(200, <<"db.update">> \o created.events
                                \o save_profile(TRUE, FALSE)
                                \o <<"db.error", "db.rollback", "log.error">>)
            /\ UNCHANGED users
       ELSE /\ last' = R(302, <<"db.update">> \o created.events
                                \o save_profile(TRUE, TRUE)
                                \o <<"db.update", "log.info", "db.commit">>
                                \o (IF upload # ""
                                    THEN <<Delay("process_profile_image")>> ELSE << >>)
                                \o <<Delay("profile_update_email")>>)
            /\ users' = [users EXCEPT ![uid].username = username,
                                      ![uid].image = IF upload # "" THEN upload ELSE @]
    /\ cache' = IF \E i \in DOMAIN last'.events : last'.events[i] = "db.update"
                THEN user_saved(cache, users[uid].username) ELSE cache

(* ----------------------- Retryable Task Wrapper ----------------------- *)

\* @shared_task(bind=True, max_retries=3)
MaxRetries == 3

\* self.retry(exc=exc, countdown=300)
RetryCountdown == 300

\* The tasks whose body is try: send_mail(...) except Exception: self.retry.
EmailTasks ==
    {"post_notifying_email", "post_update_notifying_email", "notify_post_deletion",
     "send_welcome_email", "profile_update_email"}

\* What the wrapped operation of a task may do in one execution.
Outcomes(name) ==
    IF name = "process_profile_image" THEN {"ok", "error", "no_user"} ELSE {"ok", "error"}

NewTask(name) ==
    [name |-> name, state |-> "Pending", retries |-> 0, runs |-> 0, hist |-> << >>,
     countdown |-> 0, errors |-> 0]

\* One execution of the body has begun: request.retries is t.retries.
Ran(t, outcome) == [t EXCEPT !.runs = @ + 1, !.hist = Append(@, outcome)]

LoggedError(t) == [t EXCEPT !.errors = @ + 1]

\* Variant of retry that compares request.retries, not request.retries + 1.
retryOffByOne(t, countdown) ==
    IF t.retries <= MaxRetries
    THEN [t EXCEPT !.state = "Retrying", !.retries = @ + 1, !.countdown = countdown]
    ELSE [t EXCEPT !.state = "FailedTerminal"]

\* Variant of retry with a delay that grows with the retries made.
retryBackoff(t, countdown) ==
    IF t.retries + 1 <= MaxRetries
    THEN [t EXCEPT !.state = "Retrying", !.retries = @ + 1,
                   !.countdown = countdown * (t.retries + 1)]
    ELSE [t EXCEPT !.state = "FailedTerminal"]

\* raise self.retry(exc=exc, countdown=...): Celery schedules the task again
\* while request.retries + 1 <= max_retries, and raises exc otherwise, which
\* ends the task in failure.
retry(t, countdown) ==
    IF t.retries + 1 <= MaxRetries
    THEN [t EXCEPT !.state = "Retrying", !.retries = @ + 1, !.countdown = countdown]
    ELSE [t EXCEPT !.state = "FailedTerminal"]

\* Variant of the email task body with self.retry outside the except clause.
emailTaskRetryingOnSuccess(t, outcome) ==
    IF outcome = "ok" THEN retry(Ran(t, outcome), RetryCountdown)
    ELSE retry(LoggedError(Ran(t, outcome)), RetryCountdown)

\* post_notifying_email, post_update_notifying_email, notify_post_deletion,
\* send_welcome_email, profile_update_email: the body they share.
emailTask(t, outcome) ==
    IF outcome = "ok" THEN [Ran(t, outcome) EXCEPT !.state = "Succeeded"]
    ELSE retry(LoggedError(Ran(t, outcome)), RetryCountdown)

\* Variant of process_profile_image without the User.DoesNotExist clause.
process_profile_image_retrying_all(t, outcome) ==
    IF outcome = "ok" THEN [Ran(t, outcome) EXCEPT !.state = "Succeeded"]
    ELSE retry(LoggedError(Ran(t, outcome)), RetryCountdown)

\* Variant of process_profile_image whose User.DoesNotExist clause only
\* raises.
process_profile_image_silent(t, outcome) ==
    CASE outcome = "ok" -> [Ran(t, outcome) EXCEPT !.state = "Succeeded"]
      [] outcome = "no_user" -> [Ran(t, outcome) EXCEPT !.state = "FailedTerminal"]
      [] outcome = "error" -> retry(LoggedError(Ran(t, outcome)), RetryCountdown)

\* process_profile_image: User.DoesNotExist is logged and raised again, any
\* other exception is logged and retried.
process_profile_image(t, outcome) ==
    CASE outcome = "ok" -> [Ran(t, outcome) EXCEPT !.state = "Succeeded"]
      [] outcome = "no_user" ->
            [LoggedError(Ran(t, outcome)) EXCEPT !.state = "FailedTerminal"]
      [] outcome = "error" -> retry(LoggedError(Ran(t, outcome)), RetryCountdown)

\* send_donation_appreciation_email: the exception is logged and swallowed,
\* the task returns.
send_donation_appreciation_email(t, outcome) ==
    IF outcome = "ok" THEN [Ran(t, outcome) EXCEPT !.state = "Succeeded"]
    ELSE [LoggedError(Ran(t, outcome)) EXCEPT !.state = "Succeeded"]

RunBody(t, outcome) ==
    CASE t.name \in EmailTasks -> emailTask(t, outcome)
      [] t.name = "process_profile_image" -> process_profile_image(t, outcome)
      [] t.name = "send_donation_appreciation_email" ->
            send_donation_appreciation_email(t, outcome)

\* <task>.delay(...) reaches the queue.
Enqueue(name) ==
    /\ Len(tasks) < MaxTasks
    /\ tasks' = Append(tasks, NewTask(name))
    /\ last' = Req("delay", <<name>>, 0, << >>, << >>, << >>)
    /\ UNCHANGED <<users, posts, nextPk, cache, donations, reads, writer, idA, idB, keyA, keyB>>

\* A worker executes a pending task once.
Execute(i, outcome) ==
    /\ tasks[i].state = "Pending"
    /\ outcome \in Outcomes(tasks[i].name)
    /\ tasks' = [tasks EXCEPT ![i] = RunBody(tasks[i], outcome)]
    /\ last' = Req("execute", <<i>>, 0, << >>, <<outcome>>, << >>)
    /\ UNCHANGED <<users, posts, nextPk, cache, donations, reads, writer, idA, idB, keyA, keyB>>

\* Variant of the redelivery in which the broker drops the message.
RedeliverDropped(i) ==
    /\ tasks[i].state = "Retrying"
    /\ last' = Req("redeliver", <<i>>, 0, << >>, <<"dropped">>, << >>)
    /\ UNCHANGED <<users, posts, nextPk, cache, tasks, donations, reads, writer, idA, idB, keyA, keyB>>

\* The countdown of a retry has run out: the task is delivered again.
Redeliver(i) ==
    /\ tasks[i].state = "Retrying"
    /\ tasks' = [tasks EXCEPT ![i].state = "Pending"]
    /\ last' = Req("redeliver", <<i>>, 0, << >>, << >>, << >>)
    /\ UNCHANGED <<users, posts, nextPk, cache, donations, reads, writer, idA, idB, keyA, keyB>>

(* ------------------------------ donations ----------------------------- *)

DonationIds == 1..MaxDonations

\* CreateDonationCheckoutSession.post.  amount: the amount of the body in
\* cents, -1 for a body that does not parse; dbOk, stripeOk: whether
\* Donation.objects.create and stripe.checkout.Session.create return or raise.
CreateDonationCheckoutSession_post(amount, dbOk, stripeOk) ==
    LET id == Cardinality(DOMAIN donations) + 1
        R(status, events) ==
            Req("CreateDonationCheckoutSession", <<amount, id>>, status, << >>, events, << >>)
    IN
    /\ id \in DonationIds
    /\ UNCHANGED <<users, posts, nextPk, cache, tasks, reads, writer, idA, idB, keyA, keyB>>
    /\ IF amount < 0
       THEN /\ last' = R(500, <<"raise", "log.error">>)
            /\ UNCHANGED donations
       ELSE IF amount = 0
       THEN /\ last' = R(400, <<"log.warning">>)
            /\ UNCHANGED donations
       ELSE IF ~dbOk
       THEN /\ last' = R(500, <<"db.error", "raise", "log.error">>)
            /\ UNCHANGED donations
       ELSE /\ donations' = Put(donations, id, [status |-> "pending", email |-> ""])
            /\ IF stripeOk
               THEN last' = R(200, <<"db.commit", "log.info", "stripe.session", "log.info">>)
               ELSE last' = R(500, <<"db.commit", "log.info", "stripe.session", "raise",
                                     "log.error">>)

\* Variant of construct_event that does not check the signature.
construct_event_unsigned(payloadOk, sigOk) ==
    IF ~payloadOk THEN "ValueError" ELSE "event"

\* stripe.Webhook.construct_event(payload, sig_header, secret): the
\* signature is verified, then the payload is parsed.
construct_event(payloadOk, sigOk) ==
    IF ~sigOk THEN "SignatureVerificationError"
    ELSE IF ~payloadOk THEN "ValueError"
    ELSE "event"

EventTypes == {"checkout.session.completed", "payment_intent.succeeded"}

\* my_webhooks_view.  type, id, email: the event's type, the donation_id of
\* its metadata and the customer's email; dbOk: whether donation.save()
\* returns or raises.
my_webhooks_view(payloadOk, sigOk, type, id, email, dbOk) ==
    LET R(status, events) ==
            Req("my_webhooks_view", <<payloadOk, sigOk, type, id>>, status, << >>, events,
                << >>)
    IN
    /\ UNCHANGED <<users, posts, nextPk, cache, tasks, reads, writer, idA, idB, keyA, keyB>>
    /\ IF construct_event(payloadOk, sigOk) # "event"
       THEN /\ last' = R(400, <<"raise", "log.error">>)
            /\ UNCHANGED donations
       ELSE IF type # "checkout.session.completed"
       THEN /\ last' = R(200, <<"log.info">>)
            /\ UNCHANGED donations
       ELSE IF ~Has(donations, id)
       THEN /\ last' = R(200, <<"log.info", "db.donation", "raise", "log.error">>)
            /\ UNCHANGED donations
       ELSE IF ~dbOk
       THEN /\ last' = R(200, <<"log.info", "db.donation", "db.error", "raise", "log.error">>)
            /\ UNCHANGED donations
       ELSE /\ donations' = Put(donations, id, [status |-> "succeeded", email |-> email])
            /\ last' = R(200, <<"log.info", "db.donation", "db.commit", "log.info">>
                                \o (IF email # ""
                                    THEN <<Delay("send_donation_appreciation_email"),
                                           "log.info">>
                                    ELSE <<"log.warning">>))

(* ----------------------------- Batch sweep ---------------------------- *)

\* User.objects.filter(is_active=True).exclude(post__date_posted__gte=
\* ten_days_ago).distinct(): the active users none of whose posts is in
\* recent, the posts dated within the last 10 days.
InactiveUsers(recent) ==
    {u \in DOMAIN users :
        /\ users[u].active
        /\ \A p \in DOMAIN posts : posts[p].author = u => p \notin recent}

SendMail(u) == "send_mail:" \o ToString(u)

RECURSIVE RemindAborting(_, _)
\* Variant of the loop whose except clause leaves the loop.
RemindAborting(us, fails) ==
    IF us = {} THEN << >>
    ELSE LET u == CHOOSE x \in us : \A y \in us : x <= y
         IN IF u \in fails
            THEN <<SendMail(u), "log.warning">>
            ELSE <<SendMail(u)>> \o RemindAborting(us \ {u}, fails)

RECURSIVE Remind(_, _)
\* for user in inactive_users: try: send_mail(...) except Exception:
\* logger.warning(...); continue.  fails: the users whose send raises.
Remind(us, fails) ==
    IF us = {} THEN << >>
    ELSE LET u == CHOOSE x \in us : \A y \in us : x <= y
         IN (IF u \in fails THEN <<SendMail(u), "log.warning">> ELSE <<SendMail(u)>>)
                \o Remind(us \ {u}, fails)

\* inactive_users.count() after the loop: the query is run again.
ReportedCount(us, fails) == Cardinality(us)

\* send_blog_reminder.  dbOk: whether the queries return or raise.
send_blog_reminder(recent, fails, dbOk) ==
    LET us == InactiveUsers(recent)
        R(result, events) ==
            Req("send_blog_reminder", <<us, fails>>, 0, <<result>>, events, << >>)
    IN
    /\ recent \subseteq DOMAIN posts
    /\ fails \subseteq us
    /\ UNCHANGED <<users, posts, nextPk, cache, tasks, donations, reads, writer, idA, idB, keyA, keyB>>
    /\ IF ~dbOk
       THEN last' = R("Email could not be sent", <<"db.users", "raise", "log.error">>)
       ELSE IF us = {}
       THEN last' = R("No inactive users to remind", <<"db.users", "log.info">>)
       ELSE last' = R("Sent reminders to " \o ToString(ReportedCount(us, fails))
                          \o " inactive users",
                      <<"db.users">> \o Remind(us, fails) \o <<"db.users", "log.info">>)

(* ------------------------------ summarizer ---------------------------- *)

\* Python's None and the empty string as cached or returned summaries.
None == << >>

EmptyString == <<"">>

\* "not summary"
Falsy(summary) == summary \in {None, EmptyString}

\* What a call to the Groq API may do: answer with text, answer with blank
\* text, or raise; "no_key" is a missing GROK_SUMMARIZATION_KEY.
GroqOutcomes == {"text", "blank", "error", "no_key"}

\* generate_blog_summary(text): content is the text of the post.
generate_blog_summary(content, outcome) ==
    IF outcome = "text" THEN <<"summary">> \o content
    ELSE IF outcome = "blank" THEN EmptyString
    ELSE None

\* Variant of summarize_post that stores whatever generate_blog_summary
\* returned before testing it.
summarize_post_storing_failures(pk, outcome) ==
    LET key == SummaryKey(pk)
        R(status, result, events) ==
            Req("summarize_post", <<pk>>, status, result, events, << >>)
        cached == IF Has(cache, key) THEN cache[key] ELSE None
        summary == generate_blog_summary(Snap(pk), outcome)
    IN
    /\ UNCHANGED <<users, posts, nextPk, tasks, donations, reads, writer, idA, idB, keyA, keyB>>
    /\ IF ~Has(posts, pk)
       THEN /\ last' = R(404, None, << >>)
            /\ UNCHANGED cache
       ELSE IF ~Falsy(cached)
       THEN /\ last' = R(302, cached, <<"db.post", "cache.get">>)
            /\ UNCHANGED cache
       ELSE IF Falsy(summary)
       THEN /\ last' = R(302, None, <<"db.post", "cache.get", "generate", "cache.set",
                                      "messages.error", "log.error">>)
            /\ cache' = Put(cache, key, summary)
       ELSE /\ last' = R(302, summary, <<"db.post", "cache.get", "generate", "cache.set">>)
            /\ cache' = Put(cache, key, summary)

\* summarize_post(request, post_id).  outcome: what the Groq call does if the
\* view reaches it.  result: the summary the redirect shows, None for the
\* redirect with the error message.
summarize_post(pk, outcome) ==
    LET key == SummaryKey(pk)
        R(status, result, events) ==
            Req("summarize_post", <<pk>>, status, result, events, << >>)
        cached == IF Has(cache, key) THEN cache[key] ELSE None
        summary == generate_blog_summary(Snap(pk), outcome)
    IN
    /\ UNCHANGED <<users, posts, nextPk, tasks, donations, reads, writer, idA, idB, keyA, keyB>>
    /\ IF ~Has(posts, pk)
       THEN /\ last' = R(404, None, << >>)
            /\ UNCHANGED cache
       ELSE IF ~Falsy(cached)
       THEN /\ last' = R(302, cached, <<"db.post", "cache.get">>)
            /\ UNCHANGED cache
       ELSE IF Falsy(summary)
       THEN /\ last' = R(302, None, <<"db.post", "cache.get", "generate",
                                      "messages.error", "log.error">>)
            /\ UNCHANGED cache
       ELSE /\ last' = R(302, summary, <<"db.post", "cache.get", "generate", "cache.set">>)
            /\ cache' = Put(cache, key, summary)

(* -------------------- requests as interleaved steps ------------------- *)

\* The list requests that may be in progress at once.
MaxReaders == 2

Readers == 1..MaxReaders

\* No list request has started.  pc: "idle", "missed" (cache.get returned
\* None), "queried" (the list is built), "done".  val: the list built from the
\* database.  wrote: 0, or the position of this request's cache.set among the
\* cache.set calls so far.
NoReads ==
    [r \in Readers |-> [pc |-> "idle", val |-> << >>, status |-> 0,
                        result |-> << >>, wrote |-> 0]]

\* No mutation has started.  pc: "idle", "committed" (Model.save wrote the row,
\* post_save not yet sent), "signalled" (Model.delete sent post_delete, the
\* removal not yet committed), "done".
NoWrite == [pc |-> "idle", op |-> "none", pk |-> 0]

Writes == Cardinality({r \in Readers : reads[r].wrote > 0})

\* PostListView.get_queryset, first step: cache.get and the test of its result.
PostListView_get_queryset_get(r) ==
    /\ reads[r].pc = "idle"
    /\ reads' = [reads EXCEPT ![r] =
                    IF Has(cache, GlobalListKey)
                    THEN [@ EXCEPT !.pc = "done", !.status = 200,
                                   !.result = cache[GlobalListKey]]
                    ELSE [@ EXCEPT !.pc = "missed"]]
    /\ UNCHANGED <<users, posts, nextPk, cache, last, tasks, donations, writer,
                   idA, idB, keyA, keyB>>

\* PostListView.get_queryset, second step: the query.
PostListView_get_queryset_query(r) ==
    /\ reads[r].pc = "missed"
    /\ reads' = [reads EXCEPT ![r] = [@ EXCEPT !.pc = "queried", !.val = AllPosts]]
    /\ UNCHANGED <<users, posts, nextPk, cache, last, tasks, donations, writer,
                   idA, idB, keyA, keyB>>

\* Variant of the third step that stores with cache.add: an entry that is
\* already present is kept.
PostListView_get_queryset_add(r) ==
    /\ reads[r].pc = "queried"
    /\ cache' = IF Has(cache, GlobalListKey) THEN cache
                ELSE Put(cache, GlobalListKey, reads[r].val)
    /\ reads' = [reads EXCEPT ![r] = [@ EXCEPT !.pc = "done", !.status = 200,
                                               !.result = reads[r].val,
                                               !.wrote = Writes + 1]]
    /\ UNCHANGED <<users, posts, nextPk, last, tasks, donations, writer,
                   idA, idB, keyA, keyB>>

\* PostListView.get_queryset, third step: cache.set and return.
PostListView_get_queryset_set(r) ==
    /\ reads[r].pc = "queried"
    /\ cache' = Put(cache, GlobalListKey, reads[r].val)
    /\ reads' = [reads EXCEPT ![r] = [@ EXCEPT !.pc = "done", !.status = 200,
                                               !.result = reads[r].val,
                                               !.wrote = Writes + 1]]
    /\ UNCHANGED <<users, posts, nextPk, last, tasks, donations, writer,
                   idA, idB, keyA, keyB>>

\* form.save of PostCreateView (pk = nextPk) or PostUpdateView by the author
\* uid, up to the commit of the row.
Model_save_commit(uid, pk) ==
    /\ writer.pc = "idle"
    /\ AuthorRequired(uid)
    /\ IF Has(posts, pk)
       THEN /\ uid = posts[pk].author
            /\ posts[pk].ver < MaxVer
            /\ posts' = Put(posts, pk, [author |-> uid, ver |-> posts[pk].ver + 1])
            /\ UNCHANGED nextPk
            /\ writer' = [pc |-> "committed", op |-> "PostUpdateView", pk |-> pk]
       ELSE /\ pk = nextPk
            /\ nextPk <= MaxPosts
            /\ posts' = Put(posts, pk, [author |-> uid, ver |-> 0])
            /\ nextPk' = nextPk + 1
            /\ writer' = [pc |-> "committed", op |-> "PostCreateView", pk |-> pk]
    /\ UNCHANGED <<users, cache, last, tasks, donations, reads, idA, idB, keyA, keyB>>

\* The rest of Model.save: post_save reaches post_saved.
Model_save_post_save ==
    /\ writer.pc = "committed"
    /\ cache' = post_saved(cache, users[posts[writer.pk].author].username,
                           writer.pk, 0).cache
    /\ writer' = [writer EXCEPT !.pc = "done"]
    /\ UNCHANGED <<users, posts, nextPk, last, tasks, donations, reads,
                   idA, idB, keyA, keyB>>

\* Model.delete of PostDeleteView by the author uid, up to the end of the
\* post_delete receiver: the DELETE is not committed yet.
Model_delete_post_delete(uid, pk) ==
    /\ writer.pc = "idle"
    /\ Has(posts, pk)
    /\ AuthorRequired(uid)
    /\ uid = posts[pk].author
    /\ cache' = post_deleted(cache, users[uid].username, pk, 0).cache
    /\ writer' = [pc |-> "signalled", op |-> "PostDeleteView", pk |-> pk]
    /\ UNCHANGED <<users, posts, nextPk, last, tasks, donations, reads,
                   idA, idB, keyA, keyB>>

\* The rest of Model.delete: the commit.
Model_delete_commit ==
    /\ writer.pc = "signalled"
    /\ posts' = Drop(posts, {writer.pk})
    /\ writer' = [writer EXCEPT !.pc = "done"]
    /\ UNCHANGED <<users, nextPk, cache, last, tasks, donations, reads,
                   idA, idB, keyA, keyB>>

(* --------------------------- specifications --------------------------- *)

Init ==
    /\ users = Empty
    /\ posts = Empty
    /\ nextPk = 1
    /\ cache = Empty
    /\ last = NoRequest
    /\ tasks = << >>
    /\ donations = Empty
    /\ reads = NoReads
    /\ writer = NoWrite
    /\ idA = <<"global-list">>
    /\ idB = <<"global-list">>
    /\ keyA = ""
    /\ keyB = ""

\* Every call to the cache store and to the database succeeds.
Reliable == {TRUE}

NoFail == {0}

ListRead(B) == \E getOk, setOk \in B : PostListView_get_queryset(getOk, setOk)

UserListRead(B) ==
    \E username \in Usernames, getOk, setOk \in B :
        SameUserPostListView_get_queryset(username, getOk, setOk)

DetailRead(B) ==
    \E pk \in PostIds, getOk, setOk \in B : PostDetailView_dispatch(pk, getOk, setOk)

Expiry == \E key \in DOMAIN cache : Expire(key)

\* The outcomes of the calls a request makes: one choice for the calls it
\* does not reach.
Reached(reached, S, default) == IF reached THEN S ELSE {default}

PostCreate(D, F) ==
    \E uid \in UserIds \cup {Anonymous} :
        \E dbOk \in Reached(AuthorRequired(uid), D, TRUE) :
            \E failAt \in Reached(AuthorRequired(uid) /\ dbOk, F, 0) :
                PostCreateView_form_valid(uid, dbOk, failAt)

PostUpdate(D, F) ==
    \E uid \in UserIds \cup {Anonymous}, pk \in PostIds :
        LET passes == Has(posts, pk) /\ AuthorRequired(uid) /\ uid = posts[pk].author
        IN \E dbOk \in Reached(passes, D, TRUE) :
               \E failAt \in Reached(passes /\ dbOk, F, 0) :
                   PostUpdateView_form_valid(uid, pk, dbOk, failAt)

PostDelete(D, F) ==
    \E uid \in UserIds \cup {Anonymous}, pk \in PostIds :
        LET passes == Has(posts, pk) /\ AuthorRequired(uid) /\ uid = posts[pk].author
        IN \E dbOk \in Reached(passes, D, TRUE) :
               \E failAt \in Reached(passes /\ dbOk, F, 0) :
                   PostDeleteView_delete(uid, pk, dbOk, failAt)

Register(D) ==
    \E username \in Usernames :
        \E userOk \in Reached(UsersNamed(username) = {}, D, TRUE) :
            \E profileOk \in Reached(UsersNamed(username) = {} /\ userOk, D, TRUE) :
                \E role \in Reached(UsersNamed(username) = {} /\ userOk /\ profileOk,
                                    Roles, "Author") :
                    register(username, role, userOk, profileOk)

\* The site while the cache store and the database answer every call.
Next ==
    \/ ListRead(Reliable)
    \/ UserListRead(Reliable)
    \/ DetailRead(Reliable)
    \/ Expiry
    \/ PostCreate(Reliable, NoFail)
    \/ PostUpdate(Reliable, NoFail)
    \/ PostDelete(Reliable, NoFail)
    \/ Register(Reliable)

Spec == Init /\ [][Next]_vars

\* The site where any call to the cache store or a write to the database may
\* raise.
NextFault ==
    \/ ListRead(BOOLEAN)
    \/ UserListRead(BOOLEAN)
    \/ DetailRead(BOOLEAN)
    \/ Expiry
    \/ PostCreate(BOOLEAN, FailChoices)
    \/ PostUpdate(BOOLEAN, FailChoices)
    \/ PostDelete(BOOLEAN, FailChoices)
    \/ Register(BOOLEAN)

SpecFault == Init /\ [][NextFault]_vars

\* The key policy on every pair of identities.
InitKey ==
    /\ users = Empty
    /\ posts = Empty
    /\ nextPk = 1
    /\ cache = Empty
    /\ last = NoRequest
    /\ tasks = << >>
    /\ donations = Empty
    /\ reads = NoReads
    /\ writer = NoWrite
    /\ idA \in Identities
    /\ idB \in Identities
    /\ keyA = ""
    /\ keyB = ""

ComputeKeys ==
    /\ keyA = ""
    /\ keyA' = keyFor(idA)
    /\ keyB' = keyFor(idB)
    /\ last' = Req("keyFor", << >>, 0, << >>, << >>, << >>)
    /\ UNCHANGED <<users, posts, nextPk, cache, tasks, donations, reads, writer, idA, idB>>

NextKey == ComputeKeys

SpecKey == InitKey /\ [][NextKey]_vars

\* The worker on the tasks that reach the queue.
Deliver == \E name \in TaskNames : Enqueue(name)

Work == \E i \in 1..Len(tasks), outcome \in {"ok", "error", "no_user"} : Execute(i, outcome)

Backoff == \E i \in 1..Len(tasks) : Redeliver(i)

NextTask ==
    \/ Deliver
    \/ Work
    \/ Backoff

SpecTask == Init /\ [][NextTask]_vars

\* A worker that is up takes every task waiting in the queue, and the
\* countdown of every retry runs out.
FairWorker ==
    \A i \in 1..MaxTasks :
        /\ WF_vars(i <= Len(tasks) /\ \E outcome \in Outcomes(tasks[i].name) :
                                          Execute(i, outcome))
        /\ WF_vars(i <= Len(tasks) /\ Redeliver(i))

SpecTaskFair == Init /\ [][NextTask]_vars /\ FairWorker

\* The reminder sweep on every table of at most MaxSweepUsers users, active
\* or not, each with at most one post.
SweepIds == 1..MaxSweepUsers

InitSweep ==
    /\ \E n \in 0..MaxSweepUsers :
          /\ users \in [1..n -> {[username |-> "u", role |-> "Author", active |-> a,
                               image |-> DefaultImage] :
                                    a \in BOOLEAN}]
          /\ \E authors \in SUBSET (1..n) :
                posts = [p \in authors |-> [author |-> p, ver |-> 0]]
    /\ nextPk = MaxSweepUsers + 1
    /\ cache = Empty
    /\ last = NoRequest
    /\ tasks = << >>
    /\ donations = Empty
    /\ reads = NoReads
    /\ writer = NoWrite
    /\ idA = <<"global-list">>
    /\ idB = <<"global-list">>
    /\ keyA = ""
    /\ keyB = ""

Sweep ==
    \E recent \in SUBSET DOMAIN posts :
        \E fails \in SUBSET InactiveUsers(recent), dbOk \in BOOLEAN :
            send_blog_reminder(recent, fails, dbOk)

NextSweep == Sweep

SpecSweep == InitSweep /\ [][NextSweep]_vars

\* The donation pages: checkout requests and webhook requests, from Stripe or
\* from anybody else.
Checkout ==
    \E amount \in {-1, 0, 500} :
        \E dbOk \in Reached(amount > 0, BOOLEAN, TRUE) :
            \E stripeOk \in Reached(amount > 0 /\ dbOk, BOOLEAN, TRUE) :
                CreateDonationCheckoutSession_post(amount, dbOk, stripeOk)

Webhook ==
    \E payloadOk, sigOk \in BOOLEAN, type \in EventTypes, id \in DonationIds :
        \E email \in {"", "d@x.org"}, dbOk \in BOOLEAN :
            my_webhooks_view(payloadOk, sigOk, type, id, email, dbOk)

NextPay ==
    \/ Checkout
    \/ Webhook

SpecPay == Init /\ [][NextPay]_vars

(* One author, at most one post mutation, and list requests that interleave
   with it step by step; every call succeeds and no entry expires. *)
InitRace ==
    /\ users = (1 :> [username |-> "al", role |-> "Author", active |-> TRUE,
                                    image |-> DefaultImage])
    /\ \E n \in 0..MaxPosts :
          /\ posts = [pk \in 1..n |-> [author |-> 1, ver |-> 0]]
          /\ nextPk = n + 1
    /\ cache = Empty
    /\ last = NoRequest
    /\ tasks = << >>
    /\ donations = Empty
    /\ reads = NoReads
    /\ writer = NoWrite
    /\ idA = <<"global-list">>
    /\ idB = <<"global-list">>
    /\ keyA = ""
    /\ keyB = ""

ReadGet == \E r \in Readers : PostListView_get_queryset_get(r)

ReadQuery == \E r \in Readers : PostListView_get_queryset_query(r)

ReadSet == \E r \in Readers : PostListView_get_queryset_set(r)

SaveCommit == \E uid \in UserIds, pk \in PostIds : Model_save_commit(uid, pk)

DeleteSignal == \E uid \in UserIds, pk \in PostIds : Model_delete_post_delete(uid, pk)

NextRace ==
    \/ ReadGet
    \/ ReadQuery
    \/ ReadSet
    \/ SaveCommit
    \/ Model_save_post_save
    \/ DeleteSignal
    \/ Model_delete_commit

SpecRace == InitRace /\ [][NextRace]_vars

(* Registration and profile updates next to the post lists: the database may
   refuse the writes of register and profile; the cache store answers. *)
Profile ==
    \E uid \in UserIds \cup {Anonymous}, username \in Usernames :
        LET valid == Has(users, uid) /\ users[uid].role # "none"
                        /\ UsersNamed(username) \ {uid} = {}
        IN \E upload \in Reached(valid, Uploads \cup {""}, "") :
              \E userOk \in Reached(valid, BOOLEAN, TRUE) :
                  \E profileOk \in Reached(valid /\ userOk, BOOLEAN, TRUE) :
                      profile(uid, username, upload, userOk, profileOk)

NextUser ==
    \/ Register(BOOLEAN)
    \/ Profile
    \/ ListRead(Reliable)
    \/ UserListRead(Reliable)
    \/ PostCreate(Reliable, NoFail)

SpecUser == Init /\ [][NextUser]_vars

(* One author, the posts and the two post lists while a cache.delete of the
   invalidation may raise; every other call succeeds and no entry expires. *)
NextInval ==
    \/ ListRead(Reliable)
    \/ UserListRead(Reliable)
    \/ PostCreate(Reliable, FailChoices)
    \/ PostUpdate(Reliable, FailChoices)
    \/ PostDelete(Reliable, FailChoices)

SpecInval == InitRace /\ [][NextInval]_vars

(* One author, the posts, their lists and their summaries; every call to the
   cache store and the database succeeds, the Groq call may fail. *)
Summarize ==
    \E pk \in PostIds :
        \E outcome \in Reached(Has(posts, pk) /\ ~Has(cache, SummaryKey(pk)),
                               GroqOutcomes, "text") :
            summarize_post(pk, outcome)

NextSummary ==
    \/ Summarize
    \/ ListRead(Reliable)
    \/ UserListRead(Reliable)
    \/ Expiry
    \/ PostCreate(Reliable, NoFail)
    \/ PostUpdate(Reliable, NoFail)
    \/ PostDelete(Reliable, NoFail)

SpecSummary == InitRace /\ [][NextSummary]_vars

(* ------------------------------- claims ------------------------------- *)

Range(q) == {q[i] : i \in DOMAIN q}

Count(q, e) == Cardinality({i \in DOMAIN q : q[i] = e})

MutationOps == {"PostCreateView", "PostUpdateView", "PostDeleteView"}

ListOps == {"PostListView", "SameUserPostListView"}

\* The request l changed a post and its receiver ran invalidate_post_cache
\* with every cache.delete returning.
Invalidated(l) == l.op \in MutationOps /\ l.status = 302 /\ "log.info" \in Range(l.events)

\* The request l changed a post: it passed the login and permission tests and
\* its write was committed.
Written(l) == l.op \in MutationOps /\ l.status = 302 /\ "db.commit" \in Range(l.events)

\* The read l went to the database: cache.get returned nothing.
Miss(l) == Range(l.events) \cap {"db.posts", "db.user", "db.post"} # {}

\* The read l is of a cached view of the post that the request m changed.
ViewOfPost(l, m) ==
    \/ l.op = "PostListView"
    \/ l.op = "SameUserPostListView" /\ l.arg = <<UserListKey(users[m.arg[1]].username)>>
    \/ l.op = "PostDetailView" /\ l.arg = <<PageKey(m.arg[2])>>

\* C1: after a post save or delete whose receiver ran invalidate_post_cache,
\* the next read of the global list, of the author's list and of the post's
\* detail page is a cache miss, recomputed from the database.
C1_NextReadMisses ==
    [][(Invalidated(last) /\ ViewOfPost(last', last)) => Miss(last')]_vars

\* C2: the keys a post mutation asks the store to delete are exactly the
\* global list key, the author's list key and the post's detail key.
C2_ExactlyThreeKeys ==
    Invalidated(last) =>
        /\ Len(last.asked) = 3
        /\ Range(last.asked) =
              {GlobalListKey, UserListKey(users[last.arg[1]].username), DetailKey(last.arg[2])}

\* C2 as amended: the keys asked for are the four of the list in
\* invalidate_post_cache, in its order, when every cache.delete returns; a
\* call that raises is the last one made.
C2_ExactlyFourKeys ==
    Written(last) =>
        LET keys == <<GlobalListKey, UserListKey(users[last.arg[1]].username),
                      DetailKey(last.arg[2]), SignalPageKey(last.arg[2])>>
        IN IF "raise" \in Range(last.events)
           THEN \E n \in 1..4 : last.asked = SubSeq(keys, 1, n)
           ELSE last.asked = keys

C2_Witness ==
    /\ last.op = "PostUpdateView"
    /\ last.status = 302
    /\ Len(last.asked) = 4
    /\ "raise" \notin Range(last.events)

\* C3: two different identities among the global list, the list of a
\* username and the detail of a post id never get the same key.
C3_KeysInjective == (keyA # "" /\ idA # idB) => keyA # keyB

C3_Witness ==
    /\ keyA # ""
    /\ idA = <<"user-list", "detail_1">>
    /\ idB = <<"detail", 1>>

\* C4: of two consecutive reads of the same cached list that both return a
\* list, with no invalidation and no expiry between them, the second returns
\* the value of the first and does not query the database.
C4_ReadIdempotent ==
    [][(/\ last.op \in ListOps
        /\ last.status = 200
        /\ last'.op = last.op
        /\ last'.arg = last.arg
        /\ last'.status = 200)
       => (last'.result = last.result /\ ~Miss(last'))]_vars

\* The second of two reads of the same list, one right after the other: a hit
\* on the list that the first stored.
C4_Witness ==
    /\ last.op = "SameUserPostListView"
    /\ last.seq = 1
    /\ last.status = 200
    /\ last.events = <<"cache.get">>
    /\ last.result # << >>

\* C5: every cache miss of a list view writes the missed key once.
C5_MissWritesOnce ==
    (last.op \in ListOps /\ Miss(last)) =>
        (Count(last.events, "cache.set") = 1 /\ Has(cache, last.arg[1]))

\* C5 as amended: a miss that finds what to list (the global list, or the list
\* of a username that a user has) calls cache.set once for the missed key,
\* and the key then holds the list returned unless that call raised; a miss
\* for a username no user has ends in 404 with no cache.set.
C5_MissWritesOnceUnless404 ==
    (last.op \in ListOps /\ Miss(last)) =>
        IF last.status = 404
        THEN /\ last.op = "SameUserPostListView"
             /\ Count(last.events, "cache.set") = 0
             /\ ~Has(cache, last.arg[1])
        ELSE /\ Count(last.events, "cache.set") = 1
             /\ last.status = 200 => (Has(cache, last.arg[1]) /\ cache[last.arg[1]] = last.result)
             /\ last.status # 200 => "raise" \in Range(last.events)

C5_Witness ==
    /\ last.op = "SameUserPostListView"
    /\ Miss(last)
    /\ last.status = 200
    /\ last.result # << >>

Retryable == EmailTasks \cup {"process_profile_image"}

C7_SucceedsOnThird ==
    \A i \in 1..Len(tasks) :
        (/\ tasks[i].name \in Retryable
         /\ Len(tasks[i].hist) >= 3
         /\ SubSeq(tasks[i].hist, 1, 3) = <<"error", "error", "ok">>)
        => (tasks[i].state = "Succeeded" /\ tasks[i].runs = 3 /\ Len(tasks[i].hist) = 3)

C7_Witness ==
    \E i \in 1..Len(tasks) :
        /\ tasks[i].name = "post_update_notifying_email"
        /\ tasks[i].hist = <<"error", "error", "ok">>

\* The last execution of t raised.
Raised(t) == t.runs >= 1 /\ t.hist[Len(t.hist)] # "ok"

Scheduled(t) == t.state \in {"Retrying", "Pending"}

\* C8: in every task, an exception of the operation while attempts remain
\* schedules a retry; none ends the task on an earlier attempt.
C8_AnyExceptionRetries ==
    \A i \in 1..Len(tasks) :
        (Raised(tasks[i]) /\ tasks[i].runs <= MaxRetries) => Scheduled(tasks[i])

\* C8 as amended: in the five email tasks every exception while retries
\* remain schedules a retry; in process_profile_image every exception but
\* User.DoesNotExist does, and User.DoesNotExist ends the task in failure on
\* that execution; send_donation_appreciation_email is executed once,
\* whatever the send does, and never retried.
C8_RetriesPerTask ==
    \A i \in 1..Len(tasks) :
        LET t == tasks[i] IN
        /\ (t.name \in EmailTasks /\ Raised(t) /\ t.runs <= MaxRetries) => Scheduled(t)
        /\ (t.name = "process_profile_image" /\ Raised(t)) =>
              IF t.hist[Len(t.hist)] = "no_user"
              THEN t.state = "FailedTerminal"
              ELSE t.runs <= MaxRetries => Scheduled(t)
        /\ (t.name = "send_donation_appreciation_email" /\ t.runs >= 1) =>
              (t.state = "Succeeded" /\ t.runs = 1 /\ t.retries = 0)

C8_Witness ==
    \E i, j \in 1..Len(tasks) :
        /\ tasks[i].name = "process_profile_image"
        /\ tasks[i].hist = <<"error", "no_user">>
        /\ tasks[j].name = "send_donation_appreciation_email"
        /\ tasks[j].hist = <<"error">>

\* C9: a task is handed to the queue only after the database write of its
\* request has been committed; a request whose write fails hands over none.
C9_EnqueueOnlyAfterCommit ==
    \A i \in DOMAIN last.events :
        last.events[i] \in DelayEvents =>
            \E j \in 1..(i - 1) : last.events[j] = "db.commit"

\* C10: in a post create, update or delete, every cache.delete of the
\* invalidation comes before the notification task is handed to the queue.
C10_InvalidateBeforeEnqueue ==
    Written(last) =>
        \A i, j \in DOMAIN last.events :
            (last.events[i] = "cache.delete" /\ last.events[j] \in DelayEvents) => i < j

\* The sweep found users to remind and its queries returned.
Swept(l) == l.op = "send_blog_reminder" /\ Len(l.events) > 2 /\ "raise" \notin Range(l.events)

\* C11: with n qualifying users of which k sends raise, the sweep reports
\* n - k: the number of reminders sent.
C11_ReportsSuccesses ==
    Swept(last) =>
        last.result =
            <<"Sent reminders to "
                \o ToString(Cardinality(last.arg[1]) - Cardinality(last.arg[2]))
                \o " inactive users">>

\* C12: the sweep calls send_mail exactly once for every qualifying user,
\* whichever sends raise, and for no other user.
C12_EveryUserTried ==
    Swept(last) =>
        /\ \A u \in last.arg[1] : Count(last.events, SendMail(u)) = 1
        /\ \A u \in SweepIds \ last.arg[1] : Count(last.events, SendMail(u)) = 0
        /\ Count(last.events, "log.warning") = Cardinality(last.arg[2])

\* Three users to remind, the send to the second raises and the third is
\* still tried.
C12_Witness ==
    /\ Swept(last)
    /\ last.arg = <<{1, 2, 3}, {2}>>
    /\ last.events[Len(last.events) - 2] = SendMail(3)

\* In the request l a cache.delete of the invalidation raised.
InvalidationFailed(l) ==
    /\ l.op \in MutationOps
    /\ \E i \in 1..(Len(l.events) - 1) :
          l.events[i] = "cache.delete" /\ l.events[i + 1] = "raise"

\* C13: an exception of cache.delete during invalidation is caught and
\* logged by the receiver, and the create, update or delete that triggered
\* it still completes: the row is written and the request redirects.
C13_InvalidationFailureContained ==
    [][InvalidationFailed(last') =>
          LET pk == last'.arg[2] IN
          /\ last'.status = 302
          /\ \E i \in 1..(Len(last'.events) - 1) :
                last'.events[i] = "raise" /\ last'.events[i + 1] = "log.exception"
          /\ "db.commit" \in Range(last'.events)
          /\ last'.op = "PostCreateView" => (~Has(posts, pk) /\ Has(posts', pk))
          /\ last'.op = "PostUpdateView" => posts'[pk].ver = posts[pk].ver + 1
          /\ last'.op = "PostDeleteView" => (Has(posts, pk) /\ ~Has(posts', pk))]_vars

\* A delete whose first cache.delete raised: nothing was invalidated.
C13_Witness ==
    /\ last.op = "PostDeleteView"
    /\ last.status = 302
    /\ last.events =
          <<Delay("notify_post_deletion"), "db.delete", "cache.delete", "raise",
            "log.exception", "db.commit">>

\* In the read l a call to the cache store raised.
CacheCallRaised(l) ==
    \E i \in 1..(Len(l.events) - 1) :
        l.events[i] \in {"cache.get", "cache.set"} /\ l.events[i + 1] = "raise"

\* The list the read l shows when computed from the database, << "404" >>
\* when the username of a user list belongs to nobody.
FreshList(l) ==
    IF l.op = "PostListView" THEN AllPosts
    ELSE LET us == {u \in DOMAIN users : l.arg = <<UserListKey(users[u].username)>>}
         IN IF us = {} THEN <<"404">> ELSE PostsOf(CHOOSE u \in us : TRUE)

\* C14: a list read during which cache.get or cache.set raises is answered as
\* a miss: the list comes from the database and the caller sees no error.
C14_CacheFailureIsMiss ==
    (last.op \in ListOps /\ CacheCallRaised(last)) =>
        IF FreshList(last) = <<"404">>
        THEN last.status = 404
        ELSE last.status = 200 /\ last.result = FreshList(last)

\* C15: every task that reaches the queue ends Succeeded or FailedTerminal,
\* whatever its executions do, when the worker is fair.
C15_TaskTerminates ==
    \A i \in 1..MaxTasks :
        (i <= Len(tasks)) ~>
            (i <= Len(tasks) /\ tasks[i].state \in {"Succeeded", "FailedTerminal"})

\* A task that used every retry and one that succeeded on its first execution.
C15_Witness ==
    \E i, j \in 1..Len(tasks) :
        /\ tasks[i].state = "FailedTerminal"
        /\ tasks[i].runs = MaxRetries + 1
        /\ tasks[j].state = "Succeeded"
        /\ tasks[j].runs = 1

\* C16: in a post create, update or delete, every cache.delete of the
\* invalidation is made after the commit of the write, inside the request.
C16_InvalidateAfterCommit ==
    last.op \in MutationOps =>
        \A i \in DOMAIN last.events :
            last.events[i] = "cache.delete" =>
                \E j \in 1..(i - 1) : last.events[j] = "db.commit"

\* The webhook request l carried a payload that parses and a signature that
\* verifies.
Verified(l) == l.op = "my_webhooks_view" /\ l.arg[1] /\ l.arg[2]

C18_OnlyOwningAuthorChanges ==
    [][\A pk \in DOMAIN posts :
          (~Has(posts', pk) \/ posts'[pk] # posts[pk]) =>
              /\ last'.op \in {"PostUpdateView", "PostDeleteView"}
              /\ last'.arg[2] = pk
              /\ last'.arg[1] # Anonymous
              /\ Has(users, last'.arg[1])
              /\ users[last'.arg[1]].role = "Author"
              /\ posts[pk].author = last'.arg[1]]_vars

\* An Author who is not the post's author was refused.
C18_Witness ==
    /\ last.op \in {"PostUpdateView", "PostDeleteView"}
    /\ last.status = 403
    /\ users[last.arg[1]].role = "Author"
    /\ Has(posts, last.arg[2])
    /\ posts[last.arg[2]].author # last.arg[1]

\* The executions of t that raised.
Failures(t) == Cardinality({k \in DOMAIN t.hist : t.hist[k] # "ok"})

\* C19: every execution that raises logs at error severity before the task
\* retries or ends, so a task that ended in failure has logged an error in
\* its last execution, and no task ends unsuccessfully without one.
C19_FailureLogged ==
    \A i \in 1..Len(tasks) :
        /\ tasks[i].errors = Failures(tasks[i])
        /\ tasks[i].state = "FailedTerminal" =>
              (Raised(tasks[i]) /\ tasks[i].errors >= 1)

\* An email task out of retries and an image task that found no user.
C19_Witness ==
    \E i, j \in 1..Len(tasks) :
        /\ tasks[i].name \in EmailTasks
        /\ tasks[i].state = "FailedTerminal"
        /\ tasks[i].errors = MaxRetries + 1
        /\ tasks[j].name = "process_profile_image"
        /\ tasks[j].state = "FailedTerminal"
        /\ tasks[j].hist = <<"no_user">>

\* C20: every retry of every retryable task is scheduled 300 seconds ahead,
\* however many retries were made before.
C20_FixedDelay ==
    \A i \in 1..Len(tasks) :
        /\ tasks[i].retries >= 1 => (tasks[i].name \in Retryable /\ tasks[i].countdown = 300)
        /\ tasks[i].retries = 0 => tasks[i].countdown = 0

\* An email task on its third retry and an image task on its first.
C20_Witness ==
    \E i, j \in 1..Len(tasks) :
        /\ tasks[i].name = "profile_update_email"
        /\ tasks[i].state = "Retrying"
        /\ tasks[i].retries = 3
        /\ tasks[j].name = "process_profile_image"
        /\ tasks[j].state = "Retrying"
        /\ tasks[j].retries = 1

\* C21: a miss whose query finds no post stores the empty list, and the same
\* read made again right after it is a hit that returns the empty list
\* without a query.
C21_EmptyListCached ==
    [][/\ (last'.op \in ListOps /\ last'.status = 200 /\ Miss(last')
              /\ last'.result = << >>)
          => (Has(cache', last'.arg[1]) /\ cache'[last'.arg[1]] = << >>)
       /\ (/\ last.op \in ListOps
           /\ last.status = 200
           /\ last.result = << >>
           /\ last'.op = last.op
           /\ last'.arg = last.arg)
          => (last'.status = 200 /\ last'.events = <<"cache.get">>
                 /\ last'.result = << >>)]_vars

\* The list of a user without posts, read twice in a row: the second read is
\* a hit on the empty list.
C21_Witness ==
    /\ last.op = "SameUserPostListView"
    /\ last.seq = 1
    /\ last.status = 200
    /\ last.events = <<"cache.get">>
    /\ last.result = << >>
    /\ cache[last.arg[1]] = << >>

\* C22: two list requests that both miss the same key may both query and both
\* write.  The cache.set of a request that queried always succeeds, answers
\* with the list that request built and leaves that list under the key,
\* whatever another request stored there before: the last write wins.
C22_LastWriteWins ==
    [][\A r \in Readers :
          (reads[r].pc = "queried" /\ reads'[r].pc = "done")
          => /\ reads'[r].status = 200
             /\ reads'[r].result = reads[r].val
             /\ Has(cache', GlobalListKey)
             /\ cache'[GlobalListKey] = reads[r].val]_vars

\* Both requests missed, built different lists and wrote; the key holds the
\* list of the second writer.
C22_Witness ==
    \E a, b \in Readers :
        /\ reads[a].pc = "done" /\ reads[a].wrote = 1
        /\ reads[b].pc = "done" /\ reads[b].wrote = 2
        /\ reads[a].status = 200 /\ reads[b].status = 200
        /\ reads[a].result # reads[b].result
        /\ Has(cache, GlobalListKey)
        /\ cache[GlobalListKey] = reads[b].result

\* C26: one list request interleaved with one post mutation: once both have
\* finished, a present 'post_list_view' entry is the current list of posts.
C26_NoStaleList ==
    \A r \in Readers :
        (/\ reads[r].pc = "done"
         /\ \A o \in Readers \ {r} : reads[o].pc = "idle"
         /\ writer.pc = "done"
         /\ Has(cache, GlobalListKey))
        => cache[GlobalListKey] = AllPosts

\* A profile POST that reached the atomic block.
ProfilePost(l) ==
    l.op = "profile" /\ Range(l.events) \cap {"db.update", "db.error"} # {}

\* C23: a profile POST persists the posted username and the posted image
\* together or leaves the user as it was, and a POST whose atomic block failed
\* enqueues neither process_profile_image nor profile_update_email.
C23_ProfileAtomic ==
    [][ProfilePost(last')
          => LET uid == last'.arg[1]
                 both == /\ users'[uid].username = last'.arg[2]
                         /\ users'[uid].image = IF last'.arg[3] # "" THEN last'.arg[3]
                                                ELSE users[uid].image
                         /\ "db.commit" \in Range(last'.events)
             IN /\ both \/ (users' = users /\ "db.rollback" \in Range(last'.events))
                /\ "db.rollback" \in Range(last'.events)
                      => Range(last'.events) \cap DelayEvents = {}
                /\ \A u \in DOMAIN users \ {uid} : users'[u] = users[u]]_vars

\* The User row was written, the Profile row refused: the posted username and
\* image are not in the database and nothing was enqueued.
C23_Witness ==
    /\ last.op = "profile"
    /\ last.events = <<"db.update", "db.error", "log.warning", "db.error",
                       "db.rollback", "log.error">>
    /\ users[last.arg[1]].username # last.arg[2]
    /\ last.arg[3] # ""
    /\ users[last.arg[1]].image # last.arg[3]

\* C24: a welcome email is queued only by the request that creates a User, once,
\* together with that user's Profile; no request gives a Profile to a user
\* that existed before it, and a later save of a user queues no welcome email.
C24_ProfileOnlyOnCreation ==
    [][/\ Delay("send_welcome_email") \in Range(last'.events)
          => /\ last'.op = "register"
             /\ Count(last'.events, Delay("send_welcome_email")) = 1
             /\ \E u \in DOMAIN users' \ DOMAIN users : users'[u].role # "none"
       /\ \A u \in DOMAIN users : (users'[u].role = "none") = (users[u].role = "none")
       /\ Cardinality(DOMAIN users' \ DOMAIN users) <= 1]_vars

\* A registered user was saved again by a profile update: no welcome email.
C24_Witness ==
    /\ last.op = "profile"
    /\ last.status = 302
    /\ "db.commit" \in Range(last.events)
    /\ Delay("profile_update_email") \in Range(last.events)
    /\ Delay("send_welcome_email") \notin Range(last.events)
    /\ users[last.arg[1]].role # "none"

\* C28: a profile update deletes no cache key, also when it changes the
\* username: the store is what it was, with the lists cached under the old
\* name.  A request that removes a post-list entry is a post mutation.
C28_RenameKeepsCache ==
    [][/\ last'.op = "profile" => cache' = cache
       /\ (\E key \in {GlobalListKey} \cup {UserListKey(n) : n \in Usernames} :
              Has(cache, key) /\ ~Has(cache', key))
          => last'.op \in MutationOps]_vars

\* The user changed the username while the store held the global list and the
\* list of the old name; both are still there.
C28_Witness ==
    /\ last.op = "profile"
    /\ last.status = 302
    /\ \E old \in Usernames \ {last.arg[2]} :
          /\ UsersNamed(old) = {}
          /\ Has(cache, UserListKey(old))
          /\ cache[UserListKey(old)] # << >>
    /\ Has(cache, GlobalListKey)
    /\ users[last.arg[1]].username = last.arg[2]

\* C25: when a cache.delete of the invalidation raises, the calls made are a
\* prefix of the key list in its order, the keys before the failing one are
\* gone, the failing key and the keys after it keep the entries they had, and
\* the request that saved or deleted the post still completes.
C25_StopsAtFirstFailure ==
    [][InvalidationFailed(last') =>
          LET pk == last'.arg[2]
              author == IF Has(posts, pk) THEN posts[pk].author ELSE posts'[pk].author
              keys == InvalidationKeys(users[author].username, pk)
              n == Len(last'.asked)
          IN /\ n >= 1 /\ n <= Len(keys)
             /\ last'.asked = SubSeq(keys, 1, n)
             /\ Count(last'.events, "cache.delete") = n
             /\ \A j \in 1..(n - 1) : ~Has(cache', keys[j])
             /\ \A j \in n..Len(keys) :
                   /\ Has(cache', keys[j]) = Has(cache, keys[j])
                   /\ Has(cache, keys[j]) => cache'[keys[j]] = cache[keys[j]]
             /\ last'.status = 302]_vars

\* An update whose first cache.delete raised while the store held the global
\* list and the author's list: both are still there.
C25_Witness ==
    /\ last.op = "PostUpdateView"
    /\ last.status = 302
    /\ last.asked = <<GlobalListKey>>
    /\ last.events = <<"db.commit", "cache.delete", "raise", "log.exception",
                       Delay("post_update_notifying_email")>>
    /\ Has(cache, GlobalListKey)
    /\ Has(cache, UserListKey(users[last.arg[1]].username))
    /\ cache[UserListKey(users[last.arg[1]].username)] = <<<<last.arg[2], 0>>>>

SummaryFailed(l) ==
    l.op = "summarize_post" /\ "generate" \in Range(l.events) /\ Falsy(l.result)

\* C29: when generate_blog_summary returns None or "", summarize_post writes
\* nothing to the cache and redirects with the error message; the next call
\* for the post calls the summarizer again.
C29_FailedSummaryNotStored ==
    [][/\ SummaryFailed(last')
          => /\ cache' = cache
             /\ ~Has(cache', SummaryKey(last'.arg[1]))
             /\ last'.status = 302
             /\ "messages.error" \in Range(last'.events)
             /\ "cache.set" \notin Range(last'.events)
       /\ (SummaryFailed(last) /\ last'.op = last.op /\ last'.arg = last.arg
              /\ last'.status = 302)
          => "generate" \in Range(last'.events)]_vars

\* After a failed request the same request was made again, reached the
\* summarizer and stored its answer.
C29_Witness ==
    /\ last.op = "summarize_post"
    /\ last.seq = 1
    /\ last.events = <<"db.post", "cache.get", "generate", "cache.set">>
    /\ Has(cache, SummaryKey(last.arg[1]))
    /\ cache[SummaryKey(last.arg[1])] = last.result

\* C30: a checkout request that answers with an error status (400 or 500)
\* leaves the Donation table as it found it.
C30_NoDonationOnError ==
    [][(last'.op = "CreateDonationCheckoutSession" /\ last'.status \in {400, 500})
          => donations' = donations]_vars

====
